---- MODULE Spec2Model ----
(***************************************************************************)
(* API-key rotation ledger (getNextAvailableApiKey, markApiKeyUsed, ...)   *)
(* and the batch generators built on it (imageGeneration.ts,               *)
(* ttsGeneration.ts).                                                      *)
(*                                                                         *)
(* Keys are identified by their 0-based declaration index, as the code     *)
(* does (getApiKeys()[i]).  Time is Date.now() in milliseconds; the        *)
(* calendar date of new Date().toDateString() is the day number of the     *)
(* clock.                                                                  *)
(***************************************************************************)
EXTENDS Integers, Sequences, FiniteSets, TLC

(***************************************************************************)
(* Bounds of the model                                                     *)
(***************************************************************************)
\* Configured keys (VITE_GEMINI_API_KEY_1 .. n, distinct strings).
MaxKeys == 2
\* State-changing steps of a ledger run: successful marks, resets, clock steps.
MaxSteps == 2
\* Calls of a quota run on one record: above every daily limit.
MaxCalls == 102
\* Prompts, replicas per prompt and items of a batch.
MaxPrompts == 3
MaxReplicas == 2
MaxItems == 6
\* External calls that throw during one batch.
MaxFaults == 4
\* Minutes that pass while the calls of an image batch are in flight.
MaxElapse == 1
\* Width of an image wave (rateLimitPerMinute * keys) of the batches explored.
MaxWave == 5
\* The maxRetries argument of a withRetry run.
MaxAttempts == 3

(***************************************************************************)
(* Program constants                                                       *)
(***************************************************************************)
IMAGE_RATE_LIMIT_PER_DAY == 70
IMAGE_RATE_LIMIT_PER_MINUTE == 10
VOICE_RATE_LIMIT_PER_DAY_FLASH == 100
VOICE_RATE_LIMIT_PER_DAY_PRO == 50
VOICE_RATE_LIMIT_PER_MINUTE == 10

ONE_MINUTE == 60 * 1000
DAY_MS == 24 * 60 * 60 * 1000

ServiceType == {"image", "voice"}
FLASH_TTS == "gemini-2.5-flash-preview-tts"
PRO_TTS == "gemini-2.5-pro-preview-tts"
Undefined == "undefined"
TTSModelArg == {FLASH_TTS, PRO_TTS, Undefined}

None == -1

\* The model catalogs: id, per-minute and per-day limits.
IMAGEN_MODELS ==
  {[id |-> "imagen-3.0-generate-002", rateLimitPerMinute |-> 20, rateLimitPerDay |-> 1000],
   [id |-> "imagen-4.0-generate-001", rateLimitPerMinute |-> 10, rateLimitPerDay |-> 70],
   [id |-> "imagen-4.0-ultra-generate-001", rateLimitPerMinute |-> 5, rateLimitPerDay |-> 30],
   [id |-> "imagen-4.0-fast-generate-001", rateLimitPerMinute |-> 10, rateLimitPerDay |-> 70],
   [id |-> "gemini-2.5-flash-image-preview", rateLimitPerMinute |-> 500, rateLimitPerDay |-> 2000],
   [id |-> "gemini-2.0-flash-preview-image-generation", rateLimitPerMinute |-> 500,
    rateLimitPerDay |-> 2000]}

TTS_MODELS ==
  {[id |-> FLASH_TTS, requestsPerMinute |-> 10, requestsPerDay |-> 100],
   [id |-> PRO_TTS, requestsPerMinute |-> 10, requestsPerDay |-> 50]}

\* The (service, ttsModel, requestsPerDay) argument lists the generators pass
\* to getNextAvailableApiKey: the model's own daily limit comes last.
SelectArgs ==
  {<<"image", Undefined, m.rateLimitPerDay>> : m \in IMAGEN_MODELS}
    \cup {<<"voice", m.id, m.requestsPerDay>> : m \in TTS_MODELS}

VARIABLES
  nk,        \* getApiKeys().length: the number of configured keys
  status,    \* localStorage[STORAGE_KEY]: key index -> service -> record
  now,       \* Date.now()
  steps,     \* state-changing ledger steps, or thrown errors of a batch's
             \* external calls, so far (bounds the run)
  ret,       \* the last ledger operation: what was called and what it returned;
             \* in a batch, the first onProgress call and what it carried
  cfg,       \* the batch call's arguments: model, prompts, replicas per prompt
  results,   \* the results array of the running batch
  task,      \* per result index: where its task is (pc, attempt, key)
  completed, \* the batch's completed counter
  failed,    \* the batch's failed counter
  bi,        \* the batch loop's index of the current wave's first task
  bpc        \* where the batch call is: idle, wave, sleep or returned

ledgerVars == <<nk, status, now, steps, ret>>
batchVars == <<cfg, results, task, completed, failed, bi, bpc>>
vars == <<nk, status, now, steps, ret, cfg, results, task, completed, failed, bi, bpc>>

(***************************************************************************)
(* apiKeyRotation.ts                                                       *)
(***************************************************************************)
toDateString(t) == t \div DAY_MS

isNewDay(lastResetDate, t) == lastResetDate # toDateString(t)

NewRecord(t) ==
  [requestCount |-> 0, lastResetDate |-> toDateString(t),
   isBlocked |-> FALSE, lastUsed |-> 0]

\* Creates both services' records of a key the store does not have yet.
initializeKeyStatus(key, st, t) ==
  IF key \in DOMAIN st
    THEN st
    ELSE [k \in DOMAIN st \cup {key} |->
            IF k = key THEN [image |-> NewRecord(t), voice |-> NewRecord(t)]
                       ELSE st[k]]

resetDailyCountIfNeeded_NoReset(keyStatus, t) == keyStatus

resetDailyCountIfNeeded(keyStatus, t) ==
  IF isNewDay(keyStatus.lastResetDate, t)
    THEN [keyStatus EXCEPT !.requestCount = 0,
                           !.lastResetDate = toDateString(t),
                           !.isBlocked = FALSE]
    ELSE keyStatus

\* TRUE when the key may be used: its last use is at least a minute old.
checkMinuteRateLimit(keyStatus, service, t) ==
  ~(keyStatus.lastUsed > t - ONE_MINUTE)

\* The limit both getNextAvailableApiKey and markApiKeyUsed compute.
DailyLimit(service, ttsModel) ==
  IF service = "voice"
    THEN (IF ttsModel = PRO_TTS THEN VOICE_RATE_LIMIT_PER_DAY_PRO
                                ELSE VOICE_RATE_LIMIT_PER_DAY_FLASH)
    ELSE IMAGE_RATE_LIMIT_PER_DAY

\* The for loop of getNextAvailableApiKey from index i on.  status is the
\* local object the loop mutates; saved tells whether it was written back.
RECURSIVE ScanKeys(_, _, _, _, _, _)
ScanKeys(i, service, ttsModel, st, t, n) ==
  IF i >= n
    THEN [key |-> None, status |-> st, saved |-> FALSE, visited |-> 0 .. (n - 1)]
    ELSE
      LET st1 == initializeKeyStatus(i, st, t)
          ks1 == resetDailyCountIfNeeded(st1[i][service], t)
          st2 == [st1 EXCEPT ![i][service] = ks1]
      IN IF ks1.requestCount >= DailyLimit(service, ttsModel)
           THEN ScanKeys(i + 1, service, ttsModel,
                         [st2 EXCEPT ![i][service].isBlocked = TRUE], t, n)
           ELSE IF ~checkMinuteRateLimit(ks1, service, t)
             THEN ScanKeys(i + 1, service, ttsModel, st2, t, n)
             ELSE [key |-> i, status |-> st2, saved |-> TRUE, visited |-> 0 .. i]

getNextAvailableApiKey_SkipFirst(service, ttsModel, st, t, n) ==
  ScanKeys(1, service, ttsModel, st, t, n)

getNextAvailableApiKey(service, ttsModel, st, t, n) ==
  ScanKeys(0, service, ttsModel, st, t, n)

markApiKeyUsed_CountFailures(service, keyIndex, success, ttsModel, st, t, n) ==
  IF keyIndex >= n
    THEN st
    ELSE
      LET st1 == initializeKeyStatus(keyIndex, st, t)
          ks == st1[keyIndex][service]
          cnt == ks.requestCount + 1
      IN [st1 EXCEPT ![keyIndex][service] =
            [ks EXCEPT !.requestCount = cnt,
                       !.lastUsed = t,
                       !.isBlocked = (cnt >= DailyLimit(service, ttsModel)) \/ @]]

markApiKeyUsed_Capped(service, keyIndex, success, ttsModel, st, t, n) ==
  IF keyIndex >= n
    THEN st
    ELSE
      LET st1 == initializeKeyStatus(keyIndex, st, t)
          ks == st1[keyIndex][service]
          lim == DailyLimit(service, ttsModel)
          cnt == IF ks.requestCount + 1 > lim THEN lim ELSE ks.requestCount + 1
      IN IF success
           THEN [st1 EXCEPT ![keyIndex][service] =
                   [ks EXCEPT !.requestCount = cnt,
                              !.lastUsed = t,
                              !.isBlocked = (cnt >= lim) \/ @]]
           ELSE st1

markApiKeyUsed_BothServices(service, keyIndex, success, ttsModel, st, t, n) ==
  IF keyIndex >= n
    THEN st
    ELSE
      LET st1 == initializeKeyStatus(keyIndex, st, t)
          Bump(s) ==
            LET ks == st1[keyIndex][s]
                cnt == ks.requestCount + 1
            IN [ks EXCEPT !.requestCount = cnt,
                          !.lastUsed = t,
                          !.isBlocked = (cnt >= DailyLimit(s, ttsModel)) \/ @]
      IN IF success
           THEN [st1 EXCEPT ![keyIndex] = [image |-> Bump("image"), voice |-> Bump("voice")]]
           ELSE st1

\* The value saveApiKeysStatus writes back.
markApiKeyUsed(service, keyIndex, success, ttsModel, st, t, n) ==
  IF keyIndex >= n
    THEN st
    ELSE
      LET st1 == initializeKeyStatus(keyIndex, st, t)
          ks == st1[keyIndex][service]
          cnt == ks.requestCount + 1
      IN IF success
           THEN [st1 EXCEPT ![keyIndex][service] =
                   [ks EXCEPT !.requestCount = cnt,
                              !.lastUsed = t,
                              !.isBlocked = (cnt >= DailyLimit(service, ttsModel)) \/ @]]
           ELSE st1

\* The local status object of getApiKeysStats after its forEach; the function
\* never writes it back.
RECURSIVE StatsScan(_, _, _, _)
StatsScan(i, st, t, n) ==
  IF i >= n
    THEN st
    ELSE
      LET st1 == initializeKeyStatus(i, st, t)
          st2 == [st1 EXCEPT ![i] =
                    [image |-> resetDailyCountIfNeeded(st1[i].image, t),
                     voice |-> resetDailyCountIfNeeded(st1[i].voice, t)]]
      IN StatsScan(i + 1, st2, t, n)

Min(a, b) == IF a < b THEN a ELSE b

StatsBlocked(st, service) ==
  LET lim == IF service = "image" THEN IMAGE_RATE_LIMIT_PER_DAY
             ELSE Min(VOICE_RATE_LIMIT_PER_DAY_FLASH, VOICE_RATE_LIMIT_PER_DAY_PRO)
  IN {k \in DOMAIN st : st[k][service].isBlocked \/ st[k][service].requestCount >= lim}

getApiKeysStats(st, t, n) ==
  LET seen == StatsScan(0, st, t, n)
  IN [totalKeys |-> n,
      seen |-> seen,
      imageBlocked |-> StatsBlocked(seen, "image"),
      voiceBlocked |-> StatsBlocked(seen, "voice")]

Ceil(a, b) == (a + b - 1) \div b

calculateWaitTime(service) ==
  LET rateLimit == IF service = "image" THEN IMAGE_RATE_LIMIT_PER_MINUTE
                   ELSE VOICE_RATE_LIMIT_PER_MINUTE
  IN Ceil(60, rateLimit) * 1000

(***************************************************************************)
(* The ledger on its own: any caller, any order of operations              *)
(***************************************************************************)
StartTime == DAY_MS + ONE_MINUTE

Keys(n) == 0 .. (n - 1)

\* The store when a session starts: empty, or with every key one successful
\* call short of a daily limit and last used a minute ago.
StoredRecord(c) ==
  [requestCount |-> c, lastResetDate |-> toDateString(StartTime),
   isBlocked |-> FALSE, lastUsed |-> IF c = 0 THEN 0 ELSE StartTime - ONE_MINUTE]

StoredKeyStatus ==
  {[image |-> StoredRecord(IMAGE_RATE_LIMIT_PER_DAY - 1),
    voice |-> StoredRecord(VOICE_RATE_LIMIT_PER_DAY_PRO - 1)]}

StoredStatus(n) ==
  {<<>>} \cup [Keys(n) -> StoredKeyStatus]

NoOp ==
  [op |-> "none", service |-> "image", keyIndex |-> None, success |-> FALSE,
   ttsModel |-> Undefined, requestsPerDay |-> 0, key |-> None]

NoBatch ==
  /\ cfg = [service |-> "none"]
  /\ results = <<>>
  /\ task = <<>>
  /\ completed = 0
  /\ failed = 0
  /\ bi = 0
  /\ bpc = "idle"

InitLedger ==
  /\ NoBatch
  /\ nk = MaxKeys
  /\ status \in StoredStatus(nk)
  /\ now = StartTime
  /\ steps = 0
  /\ ret = NoOp

\* markApiKeyUsed(service, keyIndex, success, ttsModel)
MarkUsed(service, keyIndex, success, ttsModel) ==
  /\ success => steps < MaxSteps
  /\ status' = markApiKeyUsed(service, keyIndex, success, ttsModel, status, now, nk)
  /\ steps' = IF success THEN steps + 1 ELSE steps
  /\ ret' = [NoOp EXCEPT !.op = "mark", !.service = service, !.success = success]
  /\ UNCHANGED <<nk, now>>

\* getNextAvailableApiKey(service, ttsModel, requestsPerDay): the function
\* declares two parameters, so the third argument is dropped.
SelectKey(service, ttsModel, requestsPerDay) ==
  LET r == getNextAvailableApiKey(service, ttsModel, status, now, nk)
  IN /\ status' = IF r.saved THEN r.status ELSE status
     /\ ret' = [NoOp EXCEPT !.op = "select", !.service = service,
                            !.ttsModel = ttsModel,
                            !.requestsPerDay = requestsPerDay, !.key = r.key]
     /\ UNCHANGED <<nk, now, steps>>

\* getApiKeysStats()
Stats ==
  LET r == getApiKeysStats(status, now, nk)
  IN /\ ret' = [NoOp EXCEPT !.op = "stats", !.key = r.totalKeys]
     /\ UNCHANGED <<nk, status, now, steps>>

\* resetAllApiKeys()
ResetAll ==
  /\ steps < MaxSteps
  /\ status' = <<>>
  /\ steps' = steps + 1
  /\ ret' = [NoOp EXCEPT !.op = "resetAll"]
  /\ UNCHANGED <<nk, now>>

\* The wall clock moves between two operations; ret describes the operation
\* just performed, so it is cleared.
Tick(d) ==
  /\ steps < MaxSteps
  /\ now' = now + d
  /\ steps' = steps + 1
  /\ ret' = NoOp
  /\ UNCHANGED <<nk, status>>

NextLedgerOp ==
  \/ \E s \in ServiceType, i \in 0 .. MaxKeys, ok \in BOOLEAN, m \in TTSModelArg :
        /\ i <= nk
        /\ (s = "image") <=> (m = Undefined)
        /\ ~ok => m # PRO_TTS   \* the failure path never reads ttsModel
        /\ MarkUsed(s, i, ok, m)
  \/ \E a \in SelectArgs : SelectKey(a[1], a[2], a[3])
  \/ Stats
  \/ ResetAll
  \/ \E d \in {ONE_MINUTE, DAY_MS} : Tick(d)

NextLedger == NextLedgerOp /\ UNCHANGED batchVars

SpecLedger == InitLedger /\ [][NextLedger]_vars

(***************************************************************************)
(* One record counted from a fresh store: K calls of markApiKeyUsed on the *)
(* (key, service) pair chosen at the start, within one day.                *)
(***************************************************************************)
InitQuota ==
  /\ NoBatch
  /\ nk = MaxKeys
  /\ status = <<>>
  /\ now = StartTime
  /\ steps = 0
  /\ \E s \in ServiceType, i \in Keys(MaxKeys), m \in TTSModelArg :
        /\ (s = "image") <=> (m = Undefined)
        /\ ret = [NoOp EXCEPT !.service = s, !.keyIndex = i, !.ttsModel = m]

QuotaCall(success) ==
  /\ steps < MaxCalls
  /\ status' = markApiKeyUsed(ret.service, ret.keyIndex, success, ret.ttsModel,
                              status, now, nk)
  /\ steps' = IF success THEN steps + 1 ELSE steps
  /\ ret' = [ret EXCEPT !.op = "mark", !.success = success]
  /\ UNCHANGED <<nk, now>>

NextQuota == (\E ok \in BOOLEAN : QuotaCall(ok)) /\ UNCHANGED batchVars

SpecQuota == InitQuota /\ [][NextQuota]_vars

\* The record the run of SpecQuota is about, and its daily limit D.
QuotaRecord == status[ret.keyIndex][ret.service]
QuotaLimit == DailyLimit(ret.service, ret.ttsModel)

\* C4 as stated: after K successful markUsed calls on a record that started
\* the day at 0, requestCount = min(K, D) and isBlocked iff K >= D.
C4_CountIsMinKD ==
  (ret.op = "mark") =>
     /\ QuotaRecord.requestCount = Min(steps, QuotaLimit)
     /\ QuotaRecord.isBlocked <=> (steps >= QuotaLimit)

\* C4 amended: after K successful markUsed calls on a record that started
\* the day at 0, requestCount = K (it is not capped at D) and isBlocked iff
\* K >= D; failed calls in between change neither.
C4_CountIsK ==
  (ret.op = "mark") =>
     /\ QuotaRecord.requestCount = steps
     /\ QuotaRecord.isBlocked <=> (steps >= QuotaLimit)

C4_Witness ==
  /\ ret.op = "mark"
  /\ steps > QuotaLimit
  /\ QuotaRecord.requestCount = steps
  /\ QuotaRecord.isBlocked

(***************************************************************************)
(* Claims about the ledger, checked under SpecLedger                       *)
(***************************************************************************)
\* The record a reader finds for (key, service): initializeKeyStatus makes
\* up a fresh one when the store has none.
View(st, k, service, t) ==
  IF k \in DOMAIN st THEN st[k][service] ELSE NewRecord(t)

Other(service) == IF service = "image" THEN "voice" ELSE "image"

\* The arguments markApiKeyUsed is called with: a key index up to the
\* number of keys, and a TTS model exactly for the voice service.
MarkArgs ==
  {a \in ServiceType \X (0 .. nk) \X TTSModelArg : (a[1] = "image") <=> (a[3] = Undefined)}

SameUse(old, new) ==
  /\ new.requestCount = old.requestCount
  /\ new.lastUsed = old.lastUsed
  /\ new.isBlocked = old.isBlocked

\* C5: markUsed with success = false leaves requestCount, lastUsed and
\* isBlocked of every record as they were, also when it is repeated.
C5_FailedMarkChangesNothing ==
  \A a \in MarkArgs :
    LET once == markApiKeyUsed(a[1], a[2], FALSE, a[3], status, now, nk)
        twice == markApiKeyUsed(a[1], a[2], FALSE, a[3], once, now, nk)
    IN \A k \in Keys(nk), sv \in ServiceType :
         /\ SameUse(View(status, k, sv, now), View(once, k, sv, now))
         /\ SameUse(View(status, k, sv, now), View(twice, k, sv, now))

C5_Witness ==
  /\ ret.op = "mark"
  /\ ~ret.success
  /\ \E k \in DOMAIN status :
        /\ status[k][ret.service].requestCount > 0
        /\ status[k][ret.service].lastUsed = now
        /\ ~status[k][ret.service].isBlocked

\* C6: a record whose lastResetDate is an earlier day is seen by the next
\* read made today (key selection or stats) as requestCount = 0,
\* isBlocked = false, lastResetDate = today.
ResetSeen(old, seen, t) ==
  (old.lastResetDate # t \div DAY_MS) =>
     /\ seen.requestCount = 0
     /\ seen.isBlocked = FALSE
     /\ seen.lastResetDate = t \div DAY_MS

C6_LazyDailyReset ==
  /\ \A a \in SelectArgs :
        LET r == getNextAvailableApiKey(a[1], a[2], status, now, nk)
        IN \A k \in r.visited \cap DOMAIN status :
             ResetSeen(status[k][a[1]], r.status[k][a[1]], now)
  /\ LET r == getApiKeysStats(status, now, nk)
     IN \A k \in Keys(nk) \cap DOMAIN status, s \in ServiceType :
          ResetSeen(status[k][s], r.seen[k][s], now)

C6_Witness ==
  /\ ret.op = "stats"
  /\ \E k \in DOMAIN status :
       /\ status[k].image.lastResetDate # toDateString(now)
       /\ status[k].image.isBlocked
       /\ status[k].image.requestCount >= IMAGE_RATE_LIMIT_PER_DAY

\* C7: operations performed for one service leave the other service's record
\* of every key unchanged, and a selection for one service does not depend on
\* the other service's records: a key exhausted for Image stays available
\* for Voice.
FreshOther(st, service, t) ==
  [k \in DOMAIN st |-> [st[k] EXCEPT ![Other(service)] = NewRecord(t)]]

C7_ServiceIsolation ==
  /\ \A a \in MarkArgs, ok \in BOOLEAN :
        LET st == markApiKeyUsed(a[1], a[2], ok, a[3], status, now, nk)
        IN \A k \in Keys(nk) :
             View(st, k, Other(a[1]), now) = View(status, k, Other(a[1]), now)
  /\ \A a \in SelectArgs :
        LET r == getNextAvailableApiKey(a[1], a[2], status, now, nk)
            st == IF r.saved THEN r.status ELSE status
        IN /\ \A k \in Keys(nk) :
                View(st, k, Other(a[1]), now) = View(status, k, Other(a[1]), now)
           /\ r.key = getNextAvailableApiKey(a[1], a[2],
                         FreshOther(status, a[1], now), now, nk).key

C7_Witness ==
  /\ ret.op = "select"
  /\ ret.service = "voice"
  /\ ret.key # None
  /\ status[ret.key].image.isBlocked
  /\ status[ret.key].image.requestCount >= IMAGE_RATE_LIMIT_PER_DAY
  /\ status[ret.key].image.lastResetDate = toDateString(now)

\* The count of (k, service) as a read made now takes it: 0 for a record of
\* an earlier day or a key the store does not know.
CountToday(k, service) ==
  LET rec == View(status, k, service, now)
  IN IF rec.lastResetDate # now \div DAY_MS THEN 0 ELSE rec.requestCount

\* C8: selectKey never returns a key whose requestCount (after lazy reset) is
\* >= the requestsPerDay of the policy passed for the selected model, and
\* returns None when every configured key is at or above that limit.
C8_NeverAtPolicyLimit ==
  (ret.op = "select") =>
     /\ (ret.key # None) => CountToday(ret.key, ret.service) < ret.requestsPerDay
     /\ (\A k \in Keys(nk) : CountToday(k, ret.service) >= ret.requestsPerDay)
           => ret.key = None

\* C9: selectKey returns the lowest declaration index among the keys that
\* qualify (count below the daily limit the selector uses, after lazy reset,
\* and last use at least a minute old), and None exactly when none qualifies.
Qualifies(k, service, ttsModel) ==
  /\ CountToday(k, service) < DailyLimit(service, ttsModel)
  /\ View(status, k, service, now).lastUsed <= now - ONE_MINUTE

C9_LowestQualifyingKey ==
  (ret.op = "select") =>
     LET Q == {k \in Keys(nk) : Qualifies(k, ret.service, ret.ttsModel)}
     IN IF Q = {} THEN ret.key = None
        ELSE /\ ret.key \in Q
             /\ \A k \in Q : ret.key <= k

C9_Witness ==
  /\ ret.op = "select"
  /\ ret.key > 0
  /\ ~Qualifies(0, ret.service, ret.ttsModel)

(***************************************************************************)
(* imageGeneration.ts: withRetry, generateImageWithRotation and            *)
(* batchGenerateImages                                                     *)
(***************************************************************************)
CONCURRENT_REQUESTS == 5
MAX_RETRIES == 3
NO_KEYS_MESSAGE == "No available API keys. All keys have reached their daily limit."

\* What one external call does: it returns the payload, or throws an error
\* whose message holds '429', an authorization pattern, or neither.
CallOutcome == {"ok", "e429", "eAuth", "eOther"}

\* withRetry's catch block at attempt `attempt` (0-based): TRUE when the loop
\* goes round again and calls the operation once more.
RetryAgain_Always(attempt, error, maxRetries) == attempt + 1 < maxRetries

RetryAgain_OneMore(attempt, error, maxRetries) ==
  IF error = "eAuth" THEN FALSE ELSE attempt < maxRetries

RetryAgain(attempt, error, maxRetries) ==
  IF error = "e429" THEN attempt + 1 < maxRetries
  ELSE IF error = "eAuth" THEN FALSE
  ELSE attempt + 1 < maxRetries

ModelInfo(id) == CHOOSE m \in IMAGEN_MODELS : m.id = id

concurrentLimit_Min(model, n) == Min(ModelInfo(model).rateLimitPerMinute, n) * n

concurrentLimit(model, n) == ModelInfo(model).rateLimitPerMinute * n

batchSize_Double(model, n) == 2 * concurrentLimit(model, n)

batchSize(model, n) ==
  IF concurrentLimit(model, n) # 0 THEN concurrentLimit(model, n) ELSE CONCURRENT_REQUESTS

\* The results array as the forEach over the prompts builds it; index idx
\* (from 1) is prompt (idx - 1) \div R, replica (idx - 1) % R.
NewResults(N, R) ==
  [idx \in 1 .. N * R |->
     [id |-> <<(idx - 1) \div R, (idx - 1) % R>>,
      chunkIndex |-> (idx - 1) \div R,
      variantIndex |-> (idx - 1) % R,
      status |-> "generating",
      error |-> ""]]

Pending == [pc |-> "pending", attempt |-> 0, key |-> None, out |-> "none"]

findIndex_First(res, id) == IF Len(res) > 0 THEN 1 ELSE 0

findIndex(res, id) ==
  IF \E i \in 1 .. Len(res) : res[i].id = id
    THEN CHOOSE i \in 1 .. Len(res) :
           /\ res[i].id = id
           /\ \A j \in 1 .. (i - 1) : res[j].id # id
    ELSE 0

UpdateResult_Append(res, id, st, err) ==
  LET i == findIndex(res, id)
  IN IF i > 0
       THEN SubSeq(res, 1, i - 1) \o SubSeq(res, i + 1, Len(res))
              \o <<[res[i] EXCEPT !.status = st, !.error = err]>>
       ELSE res

\* results[resultIndex] = {...results[resultIndex], status, error}
UpdateResult(res, id, st, err) ==
  LET i == findIndex(res, id)
  IN IF i > 0 THEN [res EXCEPT ![i].status = st, ![i].error = err] ELSE res

TaskResolved_ResetFailed(res, id, cp, fl) ==
  [results |-> UpdateResult(res, id, "success", ""), completed |-> cp + 1, failed |-> 0]

\* A task's try block after generateImageWithRotation has returned.
TaskResolved(res, id, cp, fl) ==
  [results |-> UpdateResult(res, id, "success", ""), completed |-> cp + 1, failed |-> fl]

TaskCaught_NoCount(res, id, cp, fl, err) ==
  [results |-> UpdateResult(res, id, "error", err), completed |-> cp, failed |-> fl]

\* A task's catch block: the error is recorded on the item and counted.
TaskCaught(res, id, cp, fl, err) ==
  [results |-> UpdateResult(res, id, "error", err), completed |-> cp, failed |-> fl + 1]

\* The tasks first .. last start in order within one turn of the event loop:
\* each selects its key before any call settles.  status is the store after
\* the selections, key the selection of each task.
RECURSIVE SelectForWave(_, _, _, _, _, _)
SelectForWave(idx, last, st, t, n, acc) ==
  IF idx > last
    THEN [status |-> st, key |-> acc]
    ELSE CHOOSE w \in
           { SelectForWave(idx + 1, last, IF r.saved THEN r.status ELSE st, t, n,
                           acc @@ (idx :> r.key)) :
               r \in {getNextAvailableApiKey("image", Undefined, st, t, n)} } : TRUE

\* The state after the wave whose tasks are first + 1 .. last has started at
\* time t: a task without a key has already thrown and is an error.
WaveStarted(first, res, tsk, fl, st, t) ==
  LET total == Len(res)
      last == Min(first + batchSize(cfg.model, nk), total)
      wave == (first + 1) .. last
      RECURSIVE Fail(_, _)
      Fail(r, idxs) ==
        IF idxs = {} THEN r
        ELSE LET idx == CHOOSE x \in idxs : TRUE
             IN CHOOSE w \in
                  { Fail(u, idxs \ {idx}) :
                      u \in {UpdateResult(r, res[idx].id, "error", NO_KEYS_MESSAGE)} } : TRUE
  IN CHOOSE w \in
       { [results |-> Fail(res, noKey),
          task |-> [idx \in 1 .. total |->
                      IF idx \in noKey THEN [Pending EXCEPT !.pc = "done"]
                      ELSE IF idx \in wave
                        THEN [Pending EXCEPT !.pc = "calling", !.key = sel.key[idx]]
                        ELSE tsk[idx]],
          failed |-> fl + Cardinality(noKey),
          status |-> sel.status,
          over |-> noKey = wave,
          last |-> last] :
            sel \in {SelectForWave(first + 1, last, st, t, nk, <<>>)},
            noKey \in {{idx \in wave :
                          SelectForWave(first + 1, last, st, t, nk, <<>>).key[idx] = None}} } : TRUE

\* Where the batch loop stands once every task of the wave at `first` is
\* done: it sleeps when tasks remain, and returns the results otherwise.
AfterWave_Stop(first, total) == "returned"

AfterWave_Sleep(first, total) == "sleep"

AfterWave(first, total) ==
  IF first + batchSize(cfg.model, nk) < total THEN "sleep" ELSE "returned"

ApplyWave(first, w) ==
  /\ results' = w.results
  /\ task' = w.task
  /\ failed' = w.failed
  /\ status' = w.status
  /\ bi' = first
  /\ bpc' = IF w.over THEN AfterWave(first, Len(w.results)) ELSE "wave"

\* A batch starts at StartTime, or five seconds before it, when the keys of
\* the stored records were used within the last minute.
EarlyStart == StartTime - 5 * 1000

InitImage ==
  /\ nk \in 1 .. MaxKeys
  /\ status \in StoredStatus(nk)
  /\ now \in {EarlyStart, StartTime}
  /\ (now = EarlyStart) => (DOMAIN status # {})
  /\ steps = 0
  /\ ret = NoOp
  /\ \E m \in IMAGEN_MODELS, N \in 1 .. MaxPrompts, R \in 1 .. MaxReplicas :
        /\ concurrentLimit(m.id, nk) <= MaxWave
        /\ N * R <= MaxItems
        /\ cfg = [service |-> "image", model |-> m.id, prompts |-> N, perPrompt |-> R]
  /\ results = <<>>
  /\ task = <<>>
  /\ completed = 0
  /\ failed = 0
  /\ bi = 0
  /\ bpc = "idle"

\* The first onProgress call of a batch: its counters, the statuses of the
\* items it carries and how many tasks had been started when it was made.
\* batchGenerateVoices hands over the results array before the first batch;
\* batchGenerateImages makes the call at the head of the first task, with
\* the counters and the current prompt and no items.
FirstProgress(service, res) ==
  [op |-> "onProgress",
   total |-> cfg.prompts * cfg.perPrompt,
   completed |-> 0,
   failed |-> 0,
   items |-> IF service = "voice" THEN [idx \in DOMAIN res |-> res[idx].status] ELSE <<>>,
   started |-> 0]

\* batchGenerateImages up to its first await: the results and tasks are
\* built and the first wave starts.
StartImageBatch ==
  /\ bpc = "idle"
  /\ cfg.service = "image"
  /\ LET res == NewResults(cfg.prompts, cfg.perPrompt)
         tsk == [idx \in 1 .. Len(res) |-> Pending]
     IN /\ ret' = FirstProgress("image", res)
        /\ ApplyWave(0, WaveStarted(0, res, tsk, 0, status, now))
  /\ UNCHANGED <<nk, now, steps, cfg, completed>>

WaveDone_Never(tsk) == FALSE

WaveDone_Any(tsk) == \E idx \in DOMAIN tsk : tsk[idx].pc = "done"

\* Promise.all over the wave's tasks: every started task has settled.
WaveDone(tsk) == \A idx \in DOMAIN tsk : tsk[idx].pc # "calling"

\* The external call of task idx settles with outcome o: generateSingleImage
\* marks the key, withRetry retries or throws, the task records the item.
\* A retry's backoff sleep changes nothing, so the next call follows at once.
SettleImage(idx, o) ==
  /\ bpc = "wave"
  /\ cfg.service = "image"
  /\ task[idx].pc = "calling"
  /\ (o # "ok") => steps < MaxFaults
  /\ steps' = IF o = "ok" THEN steps ELSE steps + 1
  /\ status' = markApiKeyUsed("image", task[idx].key, o = "ok", Undefined, status, now, nk)
  /\ IF o # "ok" /\ RetryAgain(task[idx].attempt, o, MAX_RETRIES)
       THEN /\ task' = [task EXCEPT ![idx].attempt = @ + 1]
            /\ UNCHANGED <<results, completed, failed>>
       ELSE LET r == IF o = "ok"
                       THEN TaskResolved(results, results[idx].id, completed, failed)
                       ELSE TaskCaught(results, results[idx].id, completed, failed, o)
            IN /\ results' = r.results
               /\ completed' = r.completed
               /\ failed' = r.failed
               /\ task' = [task EXCEPT ![idx].pc = "done", ![idx].attempt = 0, ![idx].out = o]
  /\ bpc' = IF WaveDone(task') THEN AfterWave(bi, Len(results)) ELSE "wave"
  /\ UNCHANGED <<nk, now, ret, cfg, bi>>

\* A minute of wall-clock time passes while the calls of an image wave are in
\* flight (the selector of the next wave reads the clock).
Elapse ==
  /\ bpc = "wave"
  /\ cfg.service = "image"
  /\ now - StartTime < MaxElapse * ONE_MINUTE
  /\ now' = now + ONE_MINUTE
  /\ UNCHANGED <<nk, status, steps, ret, cfg, results, task, completed, failed, bi, bpc>>

\* The sleep between two waves ends and the next wave starts.
WakeImage ==
  /\ bpc = "sleep"
  /\ cfg.service = "image"
  /\ now' = now + calculateWaitTime("image")
  /\ ApplyWave(bi + batchSize(cfg.model, nk),
               WaveStarted(bi + batchSize(cfg.model, nk), results, task, failed, status, now'))
  /\ UNCHANGED <<nk, steps, ret, cfg, completed>>

NextImage ==
  \/ StartImageBatch
  \/ \E idx \in 1 .. MaxItems, o \in CallOutcome :
        /\ idx <= Len(results)
        /\ SettleImage(idx, o)
  \/ Elapse
  \/ WakeImage

SpecImage == InitImage /\ [][NextImage]_vars

(***************************************************************************)
(* ttsGeneration.ts: processBatch, generateVoiceWithRotation and           *)
(* batchGenerateVoices                                                     *)
(***************************************************************************)
BATCH_SIZE == 4
DELAY_BETWEEN_BATCHES == 5000

\* The comparator of the final results.sort.
compareVoices(a, b) ==
  IF a.chunkIndex # b.chunkIndex
    THEN a.chunkIndex - b.chunkIndex
    ELSE a.variantIndex - b.variantIndex

\* Array.prototype.sort with that comparator: a stable sort, as an insertion
\* of each element behind the elements that do not compare greater.
RECURSIVE InsertSorted(_, _)
InsertSorted(sorted, x) ==
  IF sorted = <<>> THEN <<x>>
  ELSE IF compareVoices(x, Head(sorted)) < 0 THEN <<x>> \o sorted
  ELSE <<Head(sorted)>> \o InsertSorted(Tail(sorted), x)

RECURSIVE sortResults(_)
sortResults(res) ==
  IF res = <<>> THEN <<>>
  ELSE InsertSorted(sortResults(SubSeq(res, 1, Len(res) - 1)), res[Len(res)])

\* The tasks of the batch at `first`: results.slice(first, first + BATCH_SIZE).
VoiceBatch(first, total) == (first + 1) .. Min(first + BATCH_SIZE, total)

\* processBatch up to its await: every voice of the batch has called
\* generateVoiceWithRotation, which reads keys[apiKeyIndexStart - 1] and
\* starts the first call.
VoiceWaveStarted(first, tsk) ==
  [idx \in DOMAIN tsk |->
     IF idx \in VoiceBatch(first, Len(tsk))
       THEN [Pending EXCEPT !.pc = "calling", !.key = cfg.apiKeyIndexStart - 1]
       ELSE tsk[idx]]

\* processBatch's counts over the settled promises of its batch.
BatchCount(res, first, st) ==
  Cardinality({idx \in VoiceBatch(first, Len(res)) : res[idx].status = st})

InitVoice ==
  /\ nk = MaxKeys
  /\ status \in StoredStatus(nk)
  /\ now = StartTime
  /\ steps = 0
  /\ ret = NoOp
  /\ \E m \in TTS_MODELS, N \in 1 .. MaxPrompts, R \in 1 .. MaxReplicas, a \in 1 .. MaxKeys :
        /\ a <= nk
        /\ N * R <= MaxItems
        /\ cfg = [service |-> "voice", model |-> m.id, prompts |-> N, perPrompt |-> R,
                  apiKeyIndexStart |-> a]
  /\ results = <<>>
  /\ task = <<>>
  /\ completed = 0
  /\ failed = 0
  /\ bi = 0
  /\ bpc = "idle"

\* batchGenerateVoices up to its first await: the voices are built and the
\* first batch starts.
StartVoiceBatch ==
  /\ bpc = "idle"
  /\ cfg.service = "voice"
  /\ results' = NewResults(cfg.prompts, cfg.perPrompt)
  /\ task' = VoiceWaveStarted(0, [idx \in 1 .. cfg.prompts * cfg.perPrompt |-> Pending])
  /\ ret' = FirstProgress("voice", results')
  /\ bi' = 0
  /\ bpc' = "wave"
  /\ UNCHANGED <<nk, status, now, steps, cfg, completed, failed>>

\* The external call of voice idx settles with outcome o: generateSingleVoice
\* marks key index apiKeyIndexStart, withRetry retries or throws, the voice
\* object records the outcome.  When it is the last of its batch,
\* processBatch returns its counts and batchGenerateVoices adds them, then
\* sleeps before the next batch, or sorts the results and returns.
SettleVoice(idx, o) ==
  /\ bpc = "wave"
  /\ cfg.service = "voice"
  /\ task[idx].pc = "calling"
  /\ (o # "ok") => steps < MaxFaults
  /\ steps' = IF o = "ok" THEN steps ELSE steps + 1
  /\ status' = markApiKeyUsed("voice", cfg.apiKeyIndexStart, o = "ok", cfg.model, status, now, nk)
  /\ IF o # "ok" /\ RetryAgain(task[idx].attempt, o, MAX_RETRIES)
       THEN /\ task' = [task EXCEPT ![idx].attempt = @ + 1]
            /\ UNCHANGED <<results, completed, failed, bpc>>
       ELSE LET res == [results EXCEPT ![idx].status = IF o = "ok" THEN "success" ELSE "error",
                                       ![idx].error = IF o = "ok" THEN "" ELSE o]
                tsk == [task EXCEPT ![idx].pc = "done", ![idx].attempt = 0, ![idx].out = o]
            IN /\ task' = tsk
               /\ IF WaveDone(tsk)
                    THEN /\ completed' = completed + BatchCount(res, bi, "success")
                         /\ failed' = failed + BatchCount(res, bi, "error")
                         /\ IF bi + BATCH_SIZE < Len(res)
                              THEN /\ results' = res
                                   /\ bpc' = "sleep"
                              ELSE /\ results' = sortResults(res)
                                   /\ bpc' = "returned"
                    ELSE /\ results' = res
                         /\ UNCHANGED <<completed, failed, bpc>>
  /\ UNCHANGED <<nk, now, ret, cfg, bi>>

\* The delay between two batches ends and the next batch starts.
WakeVoice ==
  /\ bpc = "sleep"
  /\ cfg.service = "voice"
  /\ now' = now + DELAY_BETWEEN_BATCHES
  /\ bi' = bi + BATCH_SIZE
  /\ task' = VoiceWaveStarted(bi + BATCH_SIZE, task)
  /\ bpc' = "wave"
  /\ UNCHANGED <<nk, status, steps, ret, cfg, results, completed, failed>>

NextVoice ==
  \/ StartVoiceBatch
  \/ \E idx \in 1 .. MaxItems, o \in CallOutcome :
        /\ idx <= Len(results)
        /\ SettleVoice(idx, o)
  \/ WakeVoice

SpecVoice == InitVoice /\ [][NextVoice]_vars

\* Both generators.
InitBatch == InitImage \/ InitVoice

NextBatch == NextImage \/ NextVoice

SpecBatch == InitBatch /\ [][NextBatch]_vars

(***************************************************************************)
(* Claims about a batch                                                    *)
(***************************************************************************)
Items == DOMAIN results

Terminal(st) == st \in {"success", "error"}

AllSettled ==
  /\ bpc # "idle"
  /\ \A idx \in Items : task[idx].pc = "done"

\* The batch of the claim: the calls of exactly one item ended by throwing a
\* non-retryable (authorization) error, every other item's call returned.
OneFatalRestOk(bad) ==
  /\ bad \in Items
  /\ task[bad].out = "eAuth"
  /\ \A idx \in Items \ {bad} : task[idx].out = "ok"

\* C1: once every task of a batch in which one item's call threw a
\* non-retryable error and every other item's call succeeded has settled, the
\* batch has returned (it did not reject or stall), the failing item is an
\* error, every other item is a success, and the counts are failed = 1 and
\* completed = total - 1 with total the number of items.
C1_PartialFailureIsolation ==
  \A bad \in Items :
    (AllSettled /\ OneFatalRestOk(bad)) =>
       /\ bpc = "returned"
       /\ results[bad].status = "error"
       /\ \A idx \in Items \ {bad} : results[idx].status = "success"
       /\ Len(results) = cfg.prompts * cfg.perPrompt
       /\ failed = 1
       /\ completed = Len(results) - 1

C1_Witness ==
  /\ bpc = "returned"
  /\ Len(results) >= 4
  /\ \E bad \in Items : bad > 1 /\ bad < Len(results) /\ OneFatalRestOk(bad)

\* C2: when the batch has returned, every item of the returned list is a
\* success or an error, none is still generating, whether its call
\* succeeded, failed after retries, failed fatally or never got a key.
C2_AllTerminalOnReturn ==
  bpc = "returned" => \A idx \in Items : Terminal(results[idx].status)

C2_Witness ==
  /\ bpc = "returned"
  /\ \E idx \in Items : results[idx].status = "success"
  /\ \E idx \in Items : results[idx].error = NO_KEYS_MESSAGE
  /\ \E idx \in Items : results[idx].error = "eAuth"
  /\ \E idx \in Items : results[idx].error \in {"e429", "eOther"}

Before(a, b) ==
  \/ a.chunkIndex < b.chunkIndex
  \/ a.chunkIndex = b.chunkIndex /\ a.variantIndex < b.variantIndex

\* C3: the returned list has exactly N * R items and is sorted ascending by
\* (chunkIndex, variantIndex), in whatever order the calls settled.
C3_ReturnedSorted ==
  bpc = "returned" =>
     /\ Len(results) = cfg.prompts * cfg.perPrompt
     /\ \A i, j \in Items : i < j => Before(results[i], results[j])

C3_Witness ==
  /\ bpc = "returned"
  /\ cfg.prompts >= 2
  /\ cfg.perPrompt >= 2
  /\ \E i, j \in Items : i < j /\ results[i].status = "error" /\ results[j].status = "success"

NoKey(idx) == task[idx].pc # "pending" /\ task[idx].key = None

\* C10: an item for which the selector returned no key is an error with the
\* no-available-keys message and no external call was made for it; and when
\* the batch has returned, every other item, of its wave and of the later
\* waves, has its own terminal status, with a call made for every item that
\* got a key.
C10_NoKeyItemOnly ==
  /\ \A idx \in Items :
        NoKey(idx) =>
           /\ task[idx].pc = "done"
           /\ task[idx].out = "none"
           /\ results[idx].status = "error"
           /\ results[idx].error = NO_KEYS_MESSAGE
  /\ bpc = "returned" =>
        \A idx \in Items :
           /\ Terminal(results[idx].status)
           /\ task[idx].pc = "done"
           /\ ~NoKey(idx) => task[idx].out \in CallOutcome

C10_Witness ==
  /\ bpc = "returned"
  /\ \E idx, later \in Items :
        /\ idx < later
        /\ NoKey(idx)
        /\ task[later].out = "ok"
        /\ results[later].status = "success"

\* C11: an item carries the no-available-keys error only when every
\* configured key's image requestCount of today has reached the daily limit.
C11_NoKeysOnlyWhenExhausted ==
  \A idx \in Items :
    (results[idx].error = NO_KEYS_MESSAGE) =>
       \A k \in Keys(nk) : CountToday(k, "image") >= DailyLimit("image", Undefined)

\* The image quota the configured keys had left together when the batch
\* started: the counts of today less the successes the batch has added.
RECURSIVE SumCountToday(_, _)
SumCountToday(ks, service) ==
  IF ks = {} THEN 0
  ELSE LET k == CHOOSE x \in ks : TRUE
       IN CountToday(k, service) + SumCountToday(ks \ {k}, service)

RemainingAtStart ==
  nk * DailyLimit("image", Undefined) - (SumCountToday(Keys(nk), "image") - completed)

\* C12: when no external call of the batch threw and the keys together had
\* at least as much daily quota left as the batch has items, every item of
\* the returned batch is a success, however many waves it took.
C12_AllSucceedWithinQuota ==
  (bpc = "returned" /\ steps = 0 /\ RemainingAtStart >= Len(results)) =>
     \A idx \in Items : results[idx].status = "success"

(***************************************************************************)
(* withRetry on its own: one execution with an operation whose every       *)
(* invocation returns or throws.  Here results is the log of the           *)
(* invocations' outcomes, task the log of the backoff delays slept, bi the *)
(* loop's attempt, completed the invocation whose value was returned and   *)
(* failed the invocation whose error was thrown (0: none).                 *)
(***************************************************************************)
BASE_DELAY == 1000
JITTER_MS == 1000

\* Math.random() * 1000: values of [0, JITTER_MS).
Jitters == {0, JITTER_MS \div 2, JITTER_MS - 1}

RECURSIVE Pow2(_)
Pow2(n) == IF n = 0 THEN 1 ELSE 2 * Pow2(n - 1)

RetryDelay_Flat(attempt, error, maxRetries, baseDelay, jitter) ==
  IF error = "e429" THEN baseDelay + jitter
  ELSE IF error = "eOther" /\ attempt < maxRetries - 1 THEN baseDelay
  ELSE None

\* The delay withRetry's catch block sleeps after the error of attempt
\* `attempt`, None when it does not sleep.
RetryDelay(attempt, error, maxRetries, baseDelay, jitter) ==
  IF error = "e429" THEN baseDelay * Pow2(attempt) + jitter
  ELSE IF error = "eOther" /\ attempt < maxRetries - 1 THEN baseDelay * Pow2(attempt)
  ELSE None

InitRetry ==
  /\ nk = 0
  /\ status = <<>>
  /\ now = StartTime
  /\ steps = 0
  /\ ret = NoOp
  /\ \E m \in 1 .. MaxAttempts :
        cfg = [service |-> "retry", maxRetries |-> m, baseDelay |-> BASE_DELAY]
  /\ results = <<>>
  /\ task = <<>>
  /\ completed = 0
  /\ failed = 0
  /\ bi = 0
  /\ bpc = "call"

\* The loop moves on after the catch block of attempt bi: the operation is
\* invoked again, or the loop is over and lastError is thrown.
LoopOn(log) ==
  IF RetryAgain(bi, log[Len(log)], cfg.maxRetries)
    THEN /\ bi' = bi + 1
         /\ bpc' = "call"
         /\ failed' = failed
    ELSE /\ bi' = bi
         /\ bpc' = "thrown"
         /\ failed' = Len(log)

\* The invocation in flight settles with outcome o; a thrown error is caught.
\* What the step does to everything but ret.
SettleCore(o, jitter) ==
  /\ bpc = "call"
  /\ cfg.service = "retry"
  /\ results' = Append(results, o)
  /\ IF o = "ok"
       THEN /\ bpc' = "returned"
            /\ completed' = Len(results')
            /\ UNCHANGED <<task, failed, bi>>
       ELSE LET d == RetryDelay(bi, o, cfg.maxRetries, cfg.baseDelay, jitter)
            IN /\ completed' = completed
               /\ IF d # None
                    THEN /\ task' = Append(task, d)
                         /\ bpc' = "backoff"
                         /\ UNCHANGED <<failed, bi>>
                    ELSE /\ task' = task
                         /\ LoopOn(results')
  /\ UNCHANGED <<nk, status, now, steps, cfg>>

OperationSettles(o, jitter) ==
  /\ SettleCore(o, jitter)
  /\ ret' = ret

\* The backoff sleep ends.
BackoffEnds ==
  /\ bpc = "backoff"
  /\ cfg.service = "retry"
  /\ now' = now + task[Len(task)]
  /\ LoopOn(results)
  /\ UNCHANGED <<nk, status, steps, ret, cfg, results, task, completed>>

NextRetry ==
  \/ \E o \in CallOutcome, j \in Jitters : OperationSettles(o, j)
  \/ BackoffEnds

SpecRetry == InitRetry /\ [][NextRetry]_vars

\* C13: an authorization failure is never retried: the invocation that threw
\* it is the last one, no backoff is slept after it, and withRetry has thrown
\* that invocation's error, whatever number of attempts remained.
C13_AuthFailureNeverRetried ==
  (cfg.service = "retry") =>
    \A i \in DOMAIN results :
      (results[i] = "eAuth") =>
         /\ i = Len(results)
         /\ bpc = "thrown"
         /\ failed = i
         /\ Len(task) = i - 1

C13_Witness ==
  /\ cfg.service = "retry"
  /\ cfg.maxRetries = 3
  /\ Len(results) = 2
  /\ results[1] = "e429"
  /\ results[2] = "eAuth"
  /\ bpc = "thrown"
  /\ failed = 2

\* C14: an operation that throws a rate-limit error on its first two
\* invocations and succeeds on the third is invoked exactly three times,
\* withRetry returns the third invocation's value, and the backoff before the
\* third invocation is strictly longer than the one before the second, for
\* every jitter value.
C14_TwoRateLimitsThenSuccess ==
  (cfg.service = "retry" /\ Len(results) >= 3
     /\ results[1] = "e429" /\ results[2] = "e429" /\ results[3] = "ok") =>
       /\ Len(results) = 3
       /\ bpc = "returned"
       /\ completed = 3
       /\ Len(task) = 2
       /\ task[2] > task[1]

C14_Witness ==
  /\ cfg.service = "retry"
  /\ results = <<"e429", "e429", "ok">>
  /\ bpc = "returned"
  /\ task[1] = BASE_DELAY + (JITTER_MS - 1)
  /\ task[2] = 2 * BASE_DELAY

\* C15: the operation is invoked at most maxRetries times and never after a
\* success; when every invocation threw a retryable error it was invoked
\* exactly maxRetries times and withRetry fails with the last one's error.
C15_BoundedInvocations ==
  (cfg.service = "retry") =>
    /\ Len(results) <= cfg.maxRetries
    /\ \A i \in DOMAIN results :
         (results[i] = "ok") => (i = Len(results) /\ bpc = "returned" /\ completed = i)
    /\ (bpc = "thrown" /\ \A i \in DOMAIN results : results[i] \in {"e429", "eOther"}) =>
         (Len(results) = cfg.maxRetries /\ failed = cfg.maxRetries)

C15_Witness ==
  /\ cfg.service = "retry"
  /\ cfg.maxRetries = 3
  /\ results = <<"eOther", "e429", "e429">>
  /\ bpc = "thrown"
  /\ failed = 3

\* The items a running batch has started so far and not yet settled.
InFlight == {idx \in DOMAIN task : task[idx].pc = "calling"}

\* The wave at bi has width w: the batch loop stands on a multiple of w, the
\* items before the wave are done, those of the wave have been started and
\* those after it have not.
WaveIs(w) ==
  /\ bi % w = 0
  /\ \A idx \in DOMAIN task :
       /\ (idx <= bi) => task[idx].pc = "done"
       /\ (bi < idx /\ idx <= bi + w) => task[idx].pc # "pending"
       /\ (idx > bi + w) => task[idx].pc = "pending"
  /\ Cardinality(InFlight) <= w

Running == cfg.service \in {"image", "voice"} /\ bpc \in {"wave", "sleep", "returned"}

WaveWidth == IF cfg.service = "image" THEN batchSize(cfg.model, nk) ELSE BATCH_SIZE

WaveSleep == IF cfg.service = "image" THEN calculateWaitTime("image") ELSE DELAY_BETWEEN_BATCHES

WaveOf(idx) == (idx - 1) \div WaveWidth

\* C17: waves run strictly one after another.  An item is started only when
\* every item of the earlier waves has settled; the batch moves to the next wave only
\* out of the sleep between waves, whose duration has then elapsed; the batch
\* sleeps only while items of later waves remain, so not after the last wave.
C17_WavesInSequence ==
  [][ (cfg.service \in {"image", "voice"}) =>
        /\ \A j \in DOMAIN task' :
             (task'[j].pc # "pending" /\ (j \in DOMAIN task => task[j].pc = "pending")) =>
                \A i \in 1 .. (WaveOf(j) * WaveWidth) : task'[i].pc = "done"
        /\ (bi' # bi) => (bpc = "sleep" /\ bi' = bi + WaveWidth /\ now' - now >= WaveSleep)
        /\ (bpc' = "sleep") => (bi' + WaveWidth < Len(task'))
        /\ (bpc = "sleep") => (bi' # bi)
    ]_vars

C17_Witness ==
  /\ cfg.service = "image"
  /\ bpc = "wave"
  /\ bi = 5
  /\ Len(task) = 6
  /\ task[6].pc = "calling"
  /\ \A idx \in 1 .. 5 : task[idx].pc = "done" /\ task[idx].key # None

\* C18: the sleep between two waves of an image batch lasts
\* ceil(60 / requestsPerMinute) * 1000 ms for the requestsPerMinute of the
\* model the batch runs with.
C18_SleepFollowsModelRate ==
  (cfg.service = "image" /\ bpc = "sleep") =>
     calculateWaitTime("image") = Ceil(60, ModelInfo(cfg.model).rateLimitPerMinute) * 1000

\* C19: the first onProgress call of a batch carries all N * R items with
\* status generating and the counters completed = 0 and failed = 0, and it is
\* made before any key is selected or any external call is started.
C19_FirstProgressCarriesAllItems ==
  (ret.op = "onProgress") =>
     /\ Len(ret.items) = cfg.prompts * cfg.perPrompt
     /\ \A idx \in DOMAIN ret.items : ret.items[idx] = "generating"
     /\ ret.completed = 0
     /\ ret.failed = 0
     /\ ret.started = 0

(***************************************************************************)
(* regenerateImage and regenerateVoice: one item is generated again.  Here *)
(* results holds the original item the caller passed, task the one call in *)
(* flight, and ret what the function returned.  An id is the id of the     *)
(* batch item followed by the timestamps of its regenerations, as the      *)
(* string `${imageId}-regenerated-${Date.now()}` is.                       *)
(***************************************************************************)
RegenServices == {"regenerateImage", "regenerateVoice"}

\* The items a caller can hold: an item of a finished batch, or one that was
\* regenerated a minute before.
PreviousItems ==
  { [id |-> [base |-> <<c, v>>, regenerated |-> g],
     chunkIndex |-> c, variantIndex |-> v, status |-> st,
     error |-> IF st = "error" THEN "eOther" ELSE ""] :
       c \in 0 .. MaxPrompts - 1, v \in 0 .. MaxReplicas - 1,
       st \in {"success", "error"}, g \in {<<>>, <<StartTime - ONE_MINUTE>>} }

regeneratedId(id, t) == [id EXCEPT !.regenerated = Append(@, t)]

\* The return of the try block.
RegenerateResolved(original, id, t) ==
  [pc |-> "returned",
   item |-> [original EXCEPT !.id = regeneratedId(id, t), !.status = "success", !.error = ""]]

RegenerateCaught_Rethrow(original, id, err, t) == [pc |-> "rejected", item |-> original]

\* The return of the catch block.
RegenerateCaught(original, id, err, t) ==
  [pc |-> "returned",
   item |-> [original EXCEPT !.id = regeneratedId(id, t), !.status = "error", !.error = err]]

\* The handlers call with the id of the item they found by that id.
InitRegen ==
  /\ nk \in 1 .. MaxKeys
  /\ status \in StoredStatus(nk)
  /\ now \in {EarlyStart, StartTime}
  /\ (now = EarlyStart) => (DOMAIN status # {})
  /\ steps = 0
  /\ ret = NoOp
  /\ \E s \in RegenServices, original \in PreviousItems, a \in 1 .. MaxKeys :
        /\ a <= nk
        /\ \E m \in (IF s = "regenerateImage" THEN {x.id : x \in IMAGEN_MODELS}
                     ELSE {x.id : x \in TTS_MODELS}) :
              cfg = [service |-> s, model |-> m, id |-> original.id,
                     original |-> original, apiKeyIndexStart |-> a]
        /\ results = <<original>>
  /\ task = <<Pending>>
  /\ completed = 0
  /\ failed = 0
  /\ bi = 0
  /\ bpc = "idle"

Returns(r) ==
  /\ bpc' = r.pc
  /\ ret' = [op |-> "regenerate", item |-> r.item]

\* The function up to its first await: generateImageWithRotation selects a
\* key and throws when there is none; generateVoiceWithRotation takes the
\* key at apiKeyIndexStart - 1.
StartRegenerate ==
  /\ bpc = "idle"
  /\ cfg.service \in RegenServices
  /\ IF cfg.service = "regenerateImage"
       THEN LET r == getNextAvailableApiKey("image", Undefined, status, now, nk)
            IN IF r.key = None
                 THEN /\ Returns(RegenerateCaught(results[1], cfg.id, NO_KEYS_MESSAGE, now))
                      /\ UNCHANGED <<status, task>>
                 ELSE /\ status' = (IF r.saved THEN r.status ELSE status)
                      /\ task' = <<[Pending EXCEPT !.pc = "calling", !.key = r.key]>>
                      /\ bpc' = "wave"
                      /\ ret' = ret
       ELSE /\ task' = <<[Pending EXCEPT !.pc = "calling", !.key = cfg.apiKeyIndexStart - 1]>>
            /\ bpc' = "wave"
            /\ UNCHANGED <<status, ret>>
  /\ UNCHANGED <<nk, now, steps, cfg, results, completed, failed, bi>>

\* The external call settles with outcome o after the backoff of the
\* attempts before it: the key is marked, withRetry retries or gives up, and
\* the function returns the new item.
SettleRegenerate(o, jitter) ==
  /\ bpc = "wave"
  /\ cfg.service \in RegenServices
  /\ status' = IF cfg.service = "regenerateImage"
                 THEN markApiKeyUsed("image", task[1].key, o = "ok", Undefined, status, now, nk)
                 ELSE markApiKeyUsed("voice", cfg.apiKeyIndexStart, o = "ok", cfg.model,
                                     status, now, nk)
  /\ LET d == IF o = "ok" THEN None
              ELSE RetryDelay(task[1].attempt, o, MAX_RETRIES, BASE_DELAY, jitter)
     IN /\ now' = IF d = None THEN now ELSE now + d
        /\ IF o # "ok" /\ RetryAgain(task[1].attempt, o, MAX_RETRIES)
             THEN /\ task' = [task EXCEPT ![1].attempt = @ + 1]
                  /\ UNCHANGED <<ret, bpc>>
             ELSE /\ task' = [task EXCEPT ![1].pc = "done", ![1].out = o]
                  /\ Returns(IF o = "ok"
                               THEN RegenerateResolved(results[1], cfg.id, now')
                               ELSE RegenerateCaught(results[1], cfg.id, o, now'))
  /\ UNCHANGED <<nk, steps, cfg, results, completed, failed, bi>>

NextRegen ==
  \/ StartRegenerate
  \/ \E o \in CallOutcome, j \in Jitters : SettleRegenerate(o, j)

SpecRegen == InitRegen /\ [][NextRegen]_vars

\* C20: regenerateImage and regenerateVoice never reject: whether the call
\* succeeds, fails after the retries, fails fatally or finds no key, they
\* return a new item of status success or error whose id differs from the
\* original item's id, and the original item is left as it was.
C20_RegenerateNeverRejects ==
  (cfg.service \in RegenServices) =>
    /\ bpc # "rejected"
    /\ results = <<cfg.original>>
    /\ (bpc = "returned") =>
         /\ ret.op = "regenerate"
         /\ ret.item.status \in {"success", "error"}
         /\ ret.item.id # results[1].id

C20_Witness ==
  /\ cfg.service = "regenerateImage"
  /\ bpc = "returned"
  /\ task[1].pc = "pending"
  /\ ret.item.status = "error"
  /\ ret.item.error = NO_KEYS_MESSAGE
  /\ ret.item.id.regenerated = <<StartTime - ONE_MINUTE, now>>

(***************************************************************************)
(* An image batch under the scheduling the event loop gives it: the        *)
(* function's own steps run when they can (the first turn, the timer of    *)
(* the sleep between waves), and every external call in flight settles.    *)
(***************************************************************************)
\* A step of the batch other than the passing of time.
BatchStep ==
  \/ StartImageBatch
  \/ WakeImage
  \/ \E idx \in 1 .. MaxItems, o \in CallOutcome :
        /\ idx <= Len(results)
        /\ SettleImage(idx, o)

FairImage == WF_vars(BatchStep)

SpecImageFair == InitImage /\ [][NextImage]_vars /\ FairImage

\* C21: a batch invoked on a finite list whose external calls all settle
\* eventually returns, after every wave has run: each task has been started
\* and has settled, none was skipped, and no wave, retry loop or concurrency
\* gate holds the batch for ever.
C21_BatchTerminates ==
  <>(/\ bpc = "returned"
     /\ Len(task) = cfg.prompts * cfg.perPrompt
     /\ \A idx \in DOMAIN task : task[idx].pc = "done")

C21_Witness ==
  /\ cfg.service = "image"
  /\ bpc = "returned"
  /\ bi = 5
  /\ Len(task) = 6
  /\ steps >= 3
  /\ \A idx \in DOMAIN task : task[idx].pc = "done"
  /\ task[6].key # None

\* The requestCount stored for key k and a service, 0 when no record exists.
StoredCount(st, k, service) ==
  IF k \in DOMAIN st THEN st[k][service].requestCount ELSE 0

BatchService == IF cfg.service = "voice" THEN "voice" ELSE "image"

\* The calls that settle with a success in this step.
SettledOk == {idx \in DOMAIN task : /\ task[idx].pc = "calling"
                                    /\ task'[idx].pc = "done"
                                    /\ task'[idx].out = "ok"}

\* C22: when a call settles, the requestCount of the key whose credential
\* made the call grows by exactly 1 if the item ends a success, and no
\* requestCount grows when the attempt failed, whichever attempt it was.
C22_QuotaAttribution ==
  [][ (cfg.service \in {"image", "voice"} /\ bpc = "wave" /\ task' # task) =>
        \A k \in Keys(nk) :
          StoredCount(status', k, BatchService) - StoredCount(status, k, BatchService)
            = Cardinality({idx \in SettledOk : task[idx].key = k})
    ]_vars

\* The keys the selector returns to the items idx .. last of a wave, one
\* invocation for each item in turn, each seeing what the one before saved.
RECURSIVE SelectKeys(_, _, _, _, _, _)
SelectKeys(service, idx, last, st, t, acc) ==
  IF idx > last
    THEN acc
    ELSE CHOOSE w \in
           { SelectKeys(service, idx + 1, last, IF r.saved THEN r.status ELSE st, t,
                        acc @@ (idx :> r.key)) :
               r \in {getNextAvailableApiKey(service,
                                             IF service = "voice" THEN cfg.model ELSE Undefined,
                                             st, t, nk)} } : TRUE

\* C23: the selector is invoked once for each item, before its first
\* attempt: the key an item starts with is the one that invocation returned,
\* and every later attempt of the item is made with that same key.
C23_OneSelectionPerItem ==
  [][ (cfg.service \in {"image", "voice"}) =>
        \A idx \in DOMAIN task' :
          /\ ((idx \in DOMAIN task => task[idx].pc = "pending") /\ task'[idx].pc # "pending") =>
                task'[idx].key =
                  SelectKeys(BatchService, bi' + 1, Min(bi' + WaveWidth, Len(task')),
                             status, now', <<>>)[idx]
          /\ (idx \in DOMAIN task /\ task[idx].pc = "calling") =>
                task'[idx].key = task[idx].key
    ]_vars

\* The number the running batch computed as its concurrency bound.
ConcurrencyBound ==
  IF cfg.service = "image" THEN ModelInfo(cfg.model).rateLimitPerMinute * nk ELSE BATCH_SIZE

StatusOf(res, id) == res[CHOOSE i \in DOMAIN res : res[i].id = id].status

\* C25: the status of an item changes once in a batch, from generating to
\* success or to error: a terminal status is never changed again, and the
\* batch returns only with every item changed.
C25_StatusChangesOnce ==
  [][ (cfg.service \in {"image", "voice"}) =>
        /\ (results' # results) => \A i \in DOMAIN results :
             LET id == results[i].id
                 old == results[i].status
                 new == StatusOf(results', id)
             IN /\ Terminal(old) => new = old
                /\ (new # old) => (old = "generating" /\ Terminal(new))
        /\ (bpc' = "returned") => \A i \in DOMAIN results' : Terminal(results'[i].status)
    ]_vars

C25_Witness ==
  /\ cfg.service = "image"
  /\ bpc = "wave"
  /\ Len(results) >= 3
  /\ results[1].status = "success"
  /\ results[2].status = "error"
  /\ results[3].status = "generating"
  /\ task[3].attempt = 2

(***************************************************************************)
(* withRetry with the thrown errors told apart by their message.  A        *)
(* message is the set of the patterns the catch block looks for that it    *)
(* contains; ret holds the message of the last caught error.               *)
(***************************************************************************)
AuthPatterns == {"API key", "401", "403"}

Messages == SUBSET ({"429"} \cup AuthPatterns)

Classify_AuthFirst(m) ==
  IF m \cap AuthPatterns # {} THEN "eAuth"
  ELSE IF "429" \in m THEN "e429"
  ELSE "eOther"

\* The branch of the catch block a message takes: the tests in their order.
Classify(m) ==
  IF "429" \in m THEN "e429"
  ELSE IF m \cap AuthPatterns # {} THEN "eAuth"
  ELSE "eOther"

OperationThrows(m, jitter) ==
  /\ SettleCore(Classify(m), jitter)
  /\ ret' = [op |-> "catch", message |-> m]

OperationReturns ==
  /\ SettleCore("ok", 0)
  /\ ret' = [op |-> "return", message |-> {}]

NextClassify ==
  \/ \E m \in Messages, j \in Jitters : OperationThrows(m, j)
  \/ OperationReturns
  \/ BackoffEnds

SpecClassify == InitRetry /\ [][NextClassify]_vars

\* The invocation that threw the last caught error was not the last one the
\* loop allows.
AttemptsRemained == Len(results) < cfg.maxRetries

\* C26: a caught error whose message matches both the rate-limit signal and
\* the authorization pattern is handled as a rate-limit error: a jittered
\* backoff is slept and the operation is invoked again while attempts
\* remain.  Only a message that matches the authorization pattern and not
\* the rate-limit signal ends withRetry before its attempts are used up.
C26_RateLimitBeforeAuthorization ==
  (cfg.service = "retry" /\ ret.op = "catch") =>
     /\ ("429" \in ret.message) =>
          /\ results[Len(results)] = "e429"
          /\ Len(task) = Len(results)
          /\ task[Len(task)] - BASE_DELAY * Pow2(Len(results) - 1) \in Jitters
          /\ (bpc = "thrown") => ~AttemptsRemained
     /\ ("429" \notin ret.message /\ ret.message \cap AuthPatterns # {}) =>
          /\ bpc = "thrown"
          /\ failed = Len(results)
     /\ (bpc = "thrown" /\ AttemptsRemained) =>
          ("429" \notin ret.message /\ ret.message \cap AuthPatterns # {})

C26_Witness ==
  /\ cfg.service = "retry"
  /\ ret.op = "catch"
  /\ ret.message = {"429", "401"}
  /\ Len(results) = 1
  /\ bpc = "call"
  /\ bi = 1

\* C27: during a batch the requestCount of a key for the batch's service
\* never exceeds the daily limit - 1 + the concurrency bound.
C27_BoundedOverAdmission ==
  (cfg.service \in {"image", "voice"}) =>
     \A k \in Keys(nk) :
       StoredCount(status, k, BatchService)
         <= DailyLimit(BatchService, IF cfg.service = "voice" THEN cfg.model ELSE Undefined)
              - 1 + ConcurrencyBound

\* The requestCount a read at time t finds for key k in store st, after the
\* lazy reset the read applies.
CountRead(st, k, service, t) ==
  LET rec == View(st, k, service, t)
  IN IF rec.lastResetDate # toDateString(t) THEN 0 ELSE rec.requestCount

\* C28: the requestCount read today is the number of successes marked
\* today: each successful markUsed adds exactly one to what the next read of
\* today finds, also when the stored record dates from an earlier day.
C28_CountIsSuccessesOfToday ==
  (cfg.service = "none") =>
     \A a \in MarkArgs :
       (a[2] < nk) =>
          CountRead(markApiKeyUsed(a[1], a[2], TRUE, a[3], status, now, nk), a[2], a[1], now)
            = CountRead(status, a[2], a[1], now) + 1

\* C29: the selector and the blocked flag agree: a key the selector returns
\* for a service has isBlocked = FALSE in its stored record for that service.
C29_SelectedKeyNotBlocked ==
  (ret.op = "select" /\ ret.key # None) => ~status[ret.key][ret.service].isBlocked

\* The total every snapshot of the running batch carries.
SnapshotTotal == cfg.prompts * cfg.perPrompt

CountStatus(res, st) == Cardinality({i \in DOMAIN res : res[i].status = st})

\* C30: the counters a batch reports in its snapshots add up to no more
\* than total = N * R and never decrease from one snapshot to the next; when
\* the batch has returned they add up to total, completed being the number
\* of success items and failed the number of error items of the list.
C30_SnapshotCounters ==
  [][ (cfg.service \in {"image", "voice"}) =>
        /\ completed' >= completed
        /\ failed' >= failed
        /\ completed' + failed' <= SnapshotTotal
        /\ (bpc' # "idle") => Len(results') = SnapshotTotal
        /\ (bpc' = "returned") =>
             /\ completed' + failed' = SnapshotTotal
             /\ completed' = CountStatus(results', "success")
             /\ failed' = CountStatus(results', "error")
    ]_vars

C30_Witness ==
  /\ cfg.service = "voice"
  /\ bpc = "returned"
  /\ Len(results) = 6
  /\ completed = 4
  /\ failed = 2
  /\ results[5].status = "error"

====
